---- MODULE Spec2Model ----
(***************************************************************************)
(* Model of the scanner of samkaj/lol (src/scan/scan.go).                  *)
(*                                                                         *)
(* The source is a sequence of bytes (integers 0..255); Go's 0-based index *)
(* source[i] is source[i+1] here.  One action models one dispatch of       *)
(* scanToken, one pass through the body of each sub-scan loop, and the     *)
(* return of Scan; pc names the loop the scanner is in.                    *)
(***************************************************************************)
EXTENDS Integers, Sequences, FiniteSets, TLC

VARIABLES scanner, pc, starts, dispatched, other, pcOther, calls

vars == <<scanner, pc, starts, dispatched, other, pcOther, calls>>

\* ------------------------------------------------------------------ bounds
MaxLen == 3
\* The length of the sources of two scanners that run side by side.
PairLen == 2
\* How many times Scan is called on one scanner.
MaxCalls == 2

\* ------------------------------------------------------------------ bytes
\* The byte value of the character literals the code compares with.
Byte ==
  [ch \in {"(", ")", "[", "]", "{", "}", "<", ">", "=", "!", ",", ".", ":",
           ";", "/", "*", "+", "-", "|", "\"", " ", "\r", "\t", "\n",
           "0", "9", "a", "z", "A", "Z", "_", "$"} |->
     CASE ch = "(" -> 40  [] ch = ")" -> 41  [] ch = "[" -> 91
       [] ch = "]" -> 93  [] ch = "{" -> 123 [] ch = "}" -> 125
       [] ch = "<" -> 60  [] ch = ">" -> 62  [] ch = "=" -> 61
       [] ch = "!" -> 33  [] ch = "," -> 44  [] ch = "." -> 46
       [] ch = ":" -> 58  [] ch = ";" -> 59  [] ch = "/" -> 47
       [] ch = "*" -> 42  [] ch = "+" -> 43  [] ch = "-" -> 45
       [] ch = "|" -> 124 [] ch = "\"" -> 34 [] ch = " " -> 32
       [] ch = "\r" -> 13 [] ch = "\t" -> 9  [] ch = "\n" -> 10
       [] ch = "0" -> 48  [] ch = "9" -> 57  [] ch = "a" -> 97
       [] ch = "z" -> 122 [] ch = "A" -> 65  [] ch = "Z" -> 90
       [] ch = "_" -> 95  [] ch = "$" -> 36]

\* What an out-of-range index or slice expression stands for: the Go runtime
\* panics there.  No byte and no byte sequence equals these.
OutOfRange == 0 - 1
BadSlice == <<OutOfRange>>

\* ------------------------------------------------------------------ tokens
keywordOrIdentifier(text) ==
  CASE text = <<115, 116, 114, 117, 99, 116>> -> "Struct"
    [] text = <<114, 101, 116, 117, 114, 110>> -> "Return"
    [] text = <<105, 110, 116>> -> "Int"
    [] text = <<100, 111, 117, 98, 108, 101>> -> "Double"
    [] text = <<102, 108, 111, 97, 116>> -> "Float"
    [] text = <<98, 111, 111, 108>> -> "Bool"
    [] text = <<102, 111, 114>> -> "For"
    [] text = <<105, 110>> -> "In"
    [] text = <<108, 101, 116>> -> "Let"
    [] text = <<105, 102>> -> "If"
    [] text = <<101, 108, 115, 101>> -> "Else"
    [] text = <<116, 114, 117, 101>> -> "True"
    [] text = <<102, 97, 108, 115, 101>> -> "False"
    [] OTHER -> "Identifier"

NewScanner(source) ==
  [tokens |-> <<>>, source |-> source, start |-> 0, current |-> 0,
   line |-> 1, errors |-> <<>>]

\* ------------------------------------------------------------------ helpers
end(sc) == sc.current >= Len(sc.source)

\* source[i]
index(sc, i) ==
  IF 0 <= i /\ i < Len(sc.source) THEN sc.source[i + 1] ELSE OutOfRange

\* source[lo:hi]
slice(sc, lo, hi) ==
  IF 0 <= lo /\ lo <= hi /\ hi <= Len(sc.source)
  THEN SubSeq(sc.source, lo + 1, hi)
  ELSE BadSlice

isDigit(c) == c >= Byte["0"] /\ c <= Byte["9"]

isAlpha(c) ==
  \/ (c >= Byte["a"] /\ c <= Byte["z"])
  \/ (c >= Byte["A"] /\ c <= Byte["Z"])
  \/ c = Byte["_"]

isAlphaNumeric(c) == isAlpha(c) \/ isDigit(c)

\* match: ok is the returned boolean, sc the scanner afterwards, fault an
\* out-of-range read of source[current].
match(sc, c) ==
  IF end(sc) THEN [sc |-> sc, ok |-> FALSE, fault |-> FALSE]
  ELSE IF index(sc, sc.current) # c
       THEN [sc |-> sc, ok |-> FALSE,
             fault |-> index(sc, sc.current) = OutOfRange]
       ELSE [sc |-> [sc EXCEPT !.current = @ + 1], ok |-> TRUE,
             fault |-> FALSE]

peek(sc) == IF end(sc) THEN 0 ELSE index(sc, sc.current)

\* peekNext with the bound test off by one.
peekNextOffByOne(sc) ==
  IF sc.current + 1 > Len(sc.source) THEN 0 ELSE index(sc, sc.current + 1)

peekNext(sc) ==
  IF sc.current + 1 >= Len(sc.source) THEN 0 ELSE index(sc, sc.current + 1)

\* advance: sc is the scanner afterwards, c the returned byte.
advance(sc) ==
  LET moved == [sc EXCEPT !.current = @ + 1]
  IN [sc |-> moved,
      c |-> IF ~end(moved) THEN index(moved, moved.current - 1) ELSE 0]

addToken(sc, token) == [sc EXCEPT !.tokens = Append(@, token)]

newToken(sc, tokenType, text) ==
  [Type |-> tokenType, Text |-> text, Line |-> sc.line]

lexeme(sc) == slice(sc, sc.start, sc.current)

\* fmt.Sprintf("%s on line %d", msg, line): the message is kept as its
\* fragments, the formatted arguments in place.
err(sc, msg) ==
  [sc EXCEPT !.errors = Append(@, msg \o <<" on line ", sc.line>>)]

\* The result of a step: the scanner and where control goes next.
goto(sc, where) == [sc |-> sc, pc |-> where]

\* addToken(newToken(typ, text)) and back to the main loop; a text that is an
\* out-of-range slice never got that far.
emit(sc, tokenType, text) ==
  IF text = BadSlice THEN goto(sc, "panic")
  ELSE goto(addToken(sc, newToken(sc, tokenType, text)), "Scan")

\* orEquals with string(c) as the text of the two-character token too.
orEqualsSingleText(sc, c, double, single) ==
  LET m == match(sc, Byte["="])
  IN IF m.fault THEN goto(sc, "panic")
     ELSE IF m.ok THEN emit(m.sc, double, <<c>>)
     ELSE emit(m.sc, single, <<c>>)

\* case c: if match('=') { two-character token } else { one-character token }
orEquals(sc, c, double, single) ==
  LET m == match(sc, Byte["="])
  IN IF m.fault THEN goto(sc, "panic")
     ELSE IF m.ok THEN emit(m.sc, double, lexeme(m.sc))
     ELSE emit(m.sc, single, <<c>>)

\* advance() with the returned byte dropped, then on to `where`.
advanceTo(sc, where) ==
  LET a == advance(sc)
  IN IF a.c = OutOfRange THEN goto(sc, "panic") ELSE goto(a.sc, where)

\* ------------------------------------------------------------------ scanToken
\* One dispatch.  The sub-scans that loop are entered here and run by the
\* steps below.
scanToken(sc) ==
  LET a == advance(sc)
      c == a.c
      s == a.sc
  IN
  IF c = OutOfRange THEN goto(sc, "panic")
  ELSE CASE c = Byte["("] -> emit(s, "LeftParen", <<c>>)
    [] c = Byte[")"] -> emit(s, "RightParen", <<c>>)
    [] c = Byte["["] -> emit(s, "LeftBracket", <<c>>)
    [] c = Byte["]"] -> emit(s, "RightBracket", <<c>>)
    [] c = Byte["{"] -> emit(s, "LeftCurly", <<c>>)
    [] c = Byte["}"] -> emit(s, "RightCurly", <<c>>)
    [] c = Byte["<"] -> orEquals(s, c, "LesserEquals", "LeftAngle")
    [] c = Byte[">"] -> orEquals(s, c, "GreaterEquals", "RightAngle")
    [] c = Byte["="] -> orEquals(s, c, "Equals", "Assign")
    [] c = Byte["!"] -> orEquals(s, c, "NotEquals", "Bang")
    [] c = Byte[","] -> emit(s, "Comma", <<c>>)
    [] c = Byte["."] -> emit(s, "Dot", <<c>>)
    [] c = Byte[":"] -> emit(s, "Colon", <<c>>)
    [] c = Byte[";"] -> emit(s, "SemiColon", <<c>>)
    [] c = Byte["/"] ->
         LET m == match(s, Byte["/"])
         IN IF m.fault THEN goto(sc, "panic")
            ELSE IF m.ok THEN goto(m.sc, "comment")
            ELSE emit(m.sc, "Slash", <<c>>)
    [] c = Byte["*"] -> emit(s, "Star", <<c>>)
    [] c = Byte["+"] -> emit(s, "Plus", <<c>>)
    [] c = Byte["-"] -> emit(s, "Minus", <<c>>)
    [] c = Byte["|"] -> emit(s, "Pipe", <<c>>)
    [] c = Byte["\""] -> goto(s, "stringLiteral")
    [] c = Byte[" "] -> goto(s, "Scan")
    [] c = Byte["\r"] -> goto(s, "Scan")
    [] c = Byte["\t"] -> goto(s, "Scan")
    [] c = Byte["\n"] -> emit([s EXCEPT !.line = @ + 1], "Newline", <<c>>)
    [] OTHER ->
         IF isDigit(c) THEN goto(s, "numberLiteral")
         ELSE IF isAlpha(c) THEN goto(s, "identifier")
         ELSE IF c # 0
              THEN goto(err(s, <<"Unexpected character '", c, "'">>), "Scan")
              ELSE goto(s, "Scan")

\* for peek() != '\n' && !end() { advance() }
lineComment(sc) ==
  IF peek(sc) = OutOfRange THEN goto(sc, "panic")
  ELSE IF peek(sc) # Byte["\n"] /\ ~end(sc) THEN advanceTo(sc, "comment")
  ELSE goto(sc, "Scan")

\* identifier with a loop body that does not advance.
identifierStuck(sc) ==
  IF peek(sc) = OutOfRange THEN goto(sc, "panic")
  ELSE IF isAlphaNumeric(peek(sc)) THEN goto(sc, "identifier")
  ELSE emit(sc, keywordOrIdentifier(lexeme(sc)), lexeme(sc))

\* for isAlphaNumeric(peek()) { advance() }, then the token
identifier(sc) ==
  IF peek(sc) = OutOfRange THEN goto(sc, "panic")
  ELSE IF isAlphaNumeric(peek(sc)) THEN advanceTo(sc, "identifier")
  ELSE emit(sc, keywordOrIdentifier(lexeme(sc)), lexeme(sc))

\* numberLiteral without its first digit loop.
numberLiteralNoLoop(sc) ==
  IF peek(sc) = Byte["."] /\ isDigit(peekNext(sc))
  THEN advanceTo(sc, "numberFraction")
  ELSE emit(sc, "Number", lexeme(sc))

\* numberLiteral up to and including the test for a fraction
numberLiteral(sc) ==
  IF peek(sc) = OutOfRange THEN goto(sc, "panic")
  ELSE IF isDigit(peek(sc)) THEN advanceTo(sc, "numberLiteral")
  ELSE IF peek(sc) = Byte["."] /\ peekNext(sc) = OutOfRange
       THEN goto(sc, "panic")
  ELSE IF peek(sc) = Byte["."] /\ isDigit(peekNext(sc))
       THEN advanceTo(sc, "numberFraction")
  ELSE emit(sc, "Number", lexeme(sc))

\* numberLiteral after the '.': the second digit loop, then the token
numberFraction(sc) ==
  IF peek(sc) = OutOfRange THEN goto(sc, "panic")
  ELSE IF isDigit(peek(sc)) THEN advanceTo(sc, "numberFraction")
  ELSE emit(sc, "Number", lexeme(sc))

\* stringLiteral with the quotes left in the text of the token.
stringLiteralKeepsQuotes(sc) ==
  IF peek(sc) = OutOfRange THEN goto(sc, "panic")
  ELSE IF peek(sc) # Byte["\""] /\ ~end(sc)
       THEN advanceTo(IF peek(sc) = Byte["\n"]
                      THEN err(sc, <<"unterminated string">>)
                      ELSE sc,
                      "stringLiteral")
  ELSE IF end(sc) THEN goto(err(sc, <<"unterminated string">>), "Scan")
  ELSE LET a == advance(sc)
       IN IF a.c = OutOfRange THEN goto(sc, "panic")
          ELSE emit(a.sc, "String", slice(a.sc, a.sc.start, a.sc.current))

stringLiteral(sc) ==
  IF peek(sc) = OutOfRange THEN goto(sc, "panic")
  ELSE IF peek(sc) # Byte["\""] /\ ~end(sc)
       THEN advanceTo(IF peek(sc) = Byte["\n"]
                      THEN err(sc, <<"unterminated string">>)
                      ELSE sc,
                      "stringLiteral")
  ELSE IF end(sc) THEN goto(err(sc, <<"unterminated string">>), "Scan")
  ELSE LET a == advance(sc)
       IN IF a.c = OutOfRange THEN goto(sc, "panic")
          ELSE emit(a.sc, "String",
                    slice(a.sc, a.sc.start + 1, a.sc.current - 1))

\* The EOF token built as Token{Type: EOF}, its Line left at zero.
scanReturnNoLine(sc) ==
  addToken(sc, [Type |-> "EOF", Text |-> <<>>, Line |-> 0])

\* Scan that appends the EOF token only when the tokens do not end with one.
scanReturnOnce(sc) ==
  IF Len(sc.tokens) > 0 /\ sc.tokens[Len(sc.tokens)].Type = "EOF"
  THEN sc
  ELSE addToken(sc, [Type |-> "EOF", Text |-> <<>>, Line |-> sc.line])

\* Scan after the loop: the EOF token
scanReturn(sc) ==
  addToken(sc, [Type |-> "EOF", Text |-> <<>>, Line |-> sc.line])

\* ------------------------------------------------------------------ inputs
\* NUL, '\n', ' ', '"', '$', '.', '/', '1', '=', 'a'
Alphabet == {0, 10, 32, 34, 36, 46, 47, 49, 61, 97}

\* The scenarios of the specification and the drivers' inputs.
ExLetX10 == <<108, 101, 116, 32, 120, 32, 61, 32, 49, 48>>
ExAGe5 == <<97, 32, 62, 61, 32, 53>>
ExComment == <<47, 47, 32, 99, 111, 109, 109, 101, 110, 116, 10, 108, 101, 116>>
ExUnterminated == <<34, 97, 98, 99>>
ExDollar == <<49, 32, 36, 32, 50>>
ExFloat == <<51, 46, 49, 52>>
ExTrailingDot == <<51, 46>>
ExDriver == <<47, 42, 42, 47, 108, 101, 116, 32, 120, 32, 61, 32, 111, 111>>
\* A string literal with a newline in it, then an identifier: "\n"a;
ExStringNewline == <<34, 10, 34, 97, 59>>

Examples ==
  {ExLetX10, ExAGe5, ExComment, ExUnterminated, ExDollar, ExFloat,
   ExTrailingDot, ExDriver, ExStringNewline}

Sources == UNION {[1..n -> Alphabet] : n \in 0..MaxLen} \cup Examples

\* The sources of two scanners that run side by side: '\n', '"', '$', '1',
\* and "//\n", "a1 ", "1.1" for the comment, identifier and fraction loops.
PairAlphabet == {10, 34, 36, 49}

PairExamples == {<<47, 47, 10>>, <<97, 49, 32>>, <<49, 46, 49>>}

PairSources ==
  UNION {[1..n -> PairAlphabet] : n \in 0..PairLen} \cup PairExamples

\* ------------------------------------------------------------------ Scan
\* The step a scanner at control position p takes.
run(sc, p) ==
  CASE p = "Scan" /\ ~end(sc) -> scanToken([sc EXCEPT !.start = sc.current])
    [] p = "Scan" /\ end(sc) -> goto(scanReturn(sc), "done")
    [] p = "comment" -> lineComment(sc)
    [] p = "stringLiteral" -> stringLiteral(sc)
    [] p = "identifier" -> identifier(sc)
    [] p = "numberLiteral" -> numberLiteral(sc)
    [] p = "numberFraction" -> numberFraction(sc)
    [] OTHER -> goto(sc, p)

\* The scanner from control position p to the return of Scan.
RECURSIVE ScanAll(_, _)
ScanAll(sc, p) ==
  IF p \in {"done", "panic"} THEN sc
  ELSE ScanAll(run(sc, p).sc, run(sc, p).pc)

\* One whole call of Scan on the scanner sc.
Scan(sc) == ScanAll(sc, "Scan")

\* The line counter kept in a package variable that all scanners share.
otherSharesLine(o, sc) == [o EXCEPT !.line = sc.line]

\* The diagnostics kept in a package variable that all scanners share.
otherSharesErrors(o, sc) == [o EXCEPT !.errors = sc.errors]

\* What a step that leaves one Scanner value as sc does to another Scanner
\* value o: the methods have a pointer receiver and write its fields only,
\* and the package has no variables.
otherAfter(o, sc) == o

\* ------------------------------------------------------------------ actions
\* starts[i] is the value of start when tokens[i] was appended (current for
\* the EOF token); dispatched lists the positions scanToken was called at.
Step(r) ==
  /\ scanner' = r.sc
  /\ pc' = r.pc
  /\ starts' = IF Len(r.sc.tokens) > Len(scanner.tokens)
               THEN Append(starts, r.sc.start)
               ELSE starts
  /\ other' = otherAfter(other, r.sc)
  /\ UNCHANGED <<pcOther, calls>>

Init ==
  /\ scanner \in {NewScanner(s) : s \in Sources}
  /\ pc = "Scan"
  /\ starts = <<>>
  /\ dispatched = <<>>
  /\ other = NewScanner(<<>>)
  /\ pcOther = "idle"
  /\ calls = 1

\* for !end() { start = current; scanToken() }
ScanToken ==
  /\ pc = "Scan"
  /\ ~end(scanner)
  /\ Step(scanToken([scanner EXCEPT !.start = scanner.current]))
  /\ dispatched' = Append(dispatched, scanner.current)

LineComment ==
  /\ pc = "comment"
  /\ Step(lineComment(scanner))
  /\ UNCHANGED dispatched

StringLiteral ==
  /\ pc = "stringLiteral"
  /\ Step(stringLiteral(scanner))
  /\ UNCHANGED dispatched

Identifier ==
  /\ pc = "identifier"
  /\ Step(identifier(scanner))
  /\ UNCHANGED dispatched

NumberLiteral ==
  /\ pc = "numberLiteral"
  /\ Step(numberLiteral(scanner))
  /\ UNCHANGED dispatched

NumberFraction ==
  /\ pc = "numberFraction"
  /\ Step(numberFraction(scanner))
  /\ UNCHANGED dispatched

Return ==
  /\ pc = "Scan"
  /\ end(scanner)
  /\ scanner' = scanReturn(scanner)
  /\ pc' = "done"
  /\ starts' = Append(starts, scanner.current)
  /\ other' = otherAfter(other, scanReturn(scanner))
  /\ UNCHANGED <<dispatched, pcOther, calls>>

Next ==
  \/ ScanToken
  \/ LineComment
  \/ StringLiteral
  \/ Identifier
  \/ NumberLiteral
  \/ NumberFraction
  \/ Return

Spec == Init /\ [][Next]_vars

\* Scan is one sequential call: it keeps running until it returns.
LiveSpec == Spec /\ WF_vars(Next)

\* ------------------------------------------------------------------ two scanners
\* Two Scanner values, each scanned once, their steps interleaved in any order.
PairInit ==
  /\ scanner \in {NewScanner(s) : s \in PairSources}
  /\ other \in {NewScanner(s) : s \in PairSources}
  /\ pc = "Scan"
  /\ pcOther = "Scan"
  /\ starts = <<>>
  /\ dispatched = <<>>
  /\ calls = 1

\* A step of the second scanner.
OtherStep ==
  /\ pcOther \in {"Scan", "comment", "stringLiteral", "identifier",
                  "numberLiteral", "numberFraction"}
  /\ other' = run(other, pcOther).sc
  /\ pcOther' = run(other, pcOther).pc
  /\ scanner' = otherAfter(scanner, run(other, pcOther).sc)
  /\ UNCHANGED <<pc, starts, dispatched, calls>>

PairNext == Next \/ OtherStep

PairSpec == PairInit /\ [][PairNext]_vars

\* ------------------------------------------------------------------ Scan again
\* The caller calls Scan once more on the scanner that has returned.
ScanAgain ==
  /\ pc = "done"
  /\ calls < MaxCalls
  /\ calls' = calls + 1
  /\ pc' = "Scan"
  /\ UNCHANGED <<scanner, starts, dispatched, other, pcOther>>

AgainNext == Next \/ ScanAgain

AgainSpec == Init /\ [][AgainNext]_vars

\* ------------------------------------------------------------------ properties
src == scanner.source
toks == scanner.tokens

\* The byte at 0-based position p of the source.
at(p) == src[p + 1]

\* The number of '\n' bytes strictly before position p.
NewlinesBefore(p) == Cardinality({i \in 1..p : src[i] = 10})

\* The first position from p on that holds no digit.
RECURSIVE DigitRunEnd(_)
DigitRunEnd(p) ==
  IF p < Len(src) /\ isDigit(at(p)) THEN DigitRunEnd(p + 1) ELSE p

\* Where the number literal that starts at p ends: after the digit run, and
\* after '.' and the next digit run if a digit follows the '.'.
NumberEnd(p) ==
  LET q == DigitRunEnd(p)
  IN IF q + 1 < Len(src) /\ at(q) = 46 /\ isDigit(at(q + 1))
     THEN DigitRunEnd(q + 1)
     ELSE q

\* The indices of the tokens whose lexeme starts at p.
TokensAt(p) ==
  {i \in 1..Len(toks) : starts[i] = p /\ toks[i].Type # "EOF"}

InLoop == pc \in {"comment", "stringLiteral", "identifier", "numberLiteral",
                  "numberFraction"}

\* C1: Scan terminates.  Every dispatch of the main loop and every pass
\* through the body of a sub-scan loop moves current forward by at least one
\* byte and never past the end of the source, and Scan eventually returns.
C1_Progress ==
  /\ (pc = "Scan" /\ pc' # "done" => scanner'.current > scanner.current)
  /\ (InLoop /\ pc' = pc => scanner'.current > scanner.current)
  /\ scanner'.current <= Len(src)
  /\ scanner'.source = src

C1_Terminates == [][C1_Progress]_vars /\ <>(pc = "done")

C1_Witness ==
  /\ pc = "done"
  /\ Len(dispatched) > 1
  /\ scanner.current = Len(src)
  /\ \E i \in 1..Len(toks) : toks[i].Type \in {"Identifier", "Number", "String"}

\* C2: the returned tokens hold exactly one EOF token, it is the last one,
\* and its Line is the line counter at the end of the main loop.
C2_OneEOFLast ==
  /\ pc = "done" =>
       /\ Len(toks) > 0
       /\ toks[Len(toks)].Type = "EOF"
       /\ toks[Len(toks)].Line = scanner.line
       /\ \A i \in 1..(Len(toks) - 1) : toks[i].Type # "EOF"
  /\ pc # "done" => \A i \in 1..Len(toks) : toks[i].Type # "EOF"

C2_Witness ==
  /\ pc = "done"
  /\ Len(toks) > 1
  /\ scanner.line > 1

\* C3: the Line of every token is 1 + the number of '\n' bytes strictly
\* before the position its lexeme starts at.
C3_LineIsNewlinesBefore ==
  \A i \in 1..Len(toks) : toks[i].Line = 1 + NewlinesBefore(starts[i])

\* C4: 0 <= start <= current <= len(source), no read of the source is out of
\* range, and peek and peekNext return 0 at and past the end.
C4_InBounds ==
  /\ 0 <= scanner.start
  /\ scanner.start <= scanner.current
  /\ scanner.current <= Len(src)
  /\ pc # "panic"
  /\ (scanner.current >= Len(src) => peek(scanner) = 0)
  /\ (scanner.current + 1 >= Len(src) => peekNext(scanner) = 0)

C4_Witness ==
  /\ pc = "numberLiteral"
  /\ peek(scanner) = 46
  /\ scanner.current + 1 = Len(src)

\* C5: the line counter starts at 1 and has been incremented once for every
\* '\n' byte consumed so far, so that it is 1 + the number of '\n' bytes of
\* the source when Scan returns.
C5_LineCountsNewlines ==
  /\ scanner.line = 1 + NewlinesBefore(scanner.current)
  /\ (pc = "done" => scanner.line = 1 + NewlinesBefore(Len(src)))

\* The bytes scanToken has a case for, besides digits and letters.
Listed ==
  {Byte[ch] : ch \in {"(", ")", "[", "]", "{", "}", "<", ">", "=", "!", ",",
                      ".", ":", ";", "/", "*", "+", "-", "|", "\"", " ",
                      "\r", "\t", "\n"}}

Unexpected(c) == c # 0 /\ c \notin Listed /\ ~isDigit(c) /\ ~isAlpha(c)

\* C6: a dispatch on an unexpected byte appends the one diagnostic
\* "Unexpected character '<c>' on line <line>", emits no token, consumes that
\* byte only and goes on with the main loop; "1 $ 2" gives Number("1"),
\* Number("2"), EOF and one diagnostic.
C6_Step ==
  /\ (pc = "Scan" /\ ~end(scanner) /\ Unexpected(at(scanner.current)))
       => /\ scanner'.errors =
               Append(scanner.errors,
                      <<"Unexpected character '", at(scanner.current), "'",
                        " on line ", scanner.line>>)
          /\ scanner'.tokens = toks
          /\ scanner'.current = scanner.current + 1
          /\ pc' = "Scan"
  /\ (pc' = "done" /\ src = ExDollar)
       => /\ scanner'.tokens =
               <<[Type |-> "Number", Text |-> <<49>>, Line |-> 1],
                 [Type |-> "Number", Text |-> <<50>>, Line |-> 1],
                 [Type |-> "EOF", Text |-> <<>>, Line |-> 1]>>
          /\ Len(scanner'.errors) = 1

C6_UnexpectedCharacter == [][C6_Step]_vars

\* C7: every dispatch on a digit gives exactly one Number token, whose text
\* is the digit run from there, with '.' and the next digit run if a digit
\* follows the '.'; "a >= 5" gives Identifier("a"), GreaterEquals(">="),
\* Number("5"), EOF and no diagnostic.
C7_NumberPerDigitDispatch ==
  pc = "done" =>
    /\ \A k \in 1..Len(dispatched) :
         LET p == dispatched[k]
         IN isDigit(at(p)) =>
              /\ Cardinality(TokensAt(p)) = 1
              /\ \A i \in TokensAt(p) :
                   /\ toks[i].Type = "Number"
                   /\ toks[i].Text = SubSeq(src, p + 1, NumberEnd(p))
    /\ src = ExAGe5 =>
         /\ toks = <<[Type |-> "Identifier", Text |-> <<97>>, Line |-> 1],
                     [Type |-> "GreaterEquals", Text |-> <<62, 61>>, Line |-> 1],
                     [Type |-> "Number", Text |-> <<53>>, Line |-> 1],
                     [Type |-> "EOF", Text |-> <<>>, Line |-> 1]>>
         /\ scanner.errors = <<>>

\* C8: a digit run followed by a '.' that no digit follows gives the Number
\* token of the digit run and, right after it, the Dot token of the '.'.
C8_TrailingDot ==
  pc = "done" =>
    \A k \in 1..Len(dispatched) :
      LET p == dispatched[k]
          q == DigitRunEnd(p)
      IN (/\ isDigit(at(p))
          /\ q < Len(src)
          /\ at(q) = 46
          /\ ~(q + 1 < Len(src) /\ isDigit(at(q + 1))))
         => \E i \in 1..(Len(toks) - 1) :
              /\ toks[i] = [Type |-> "Number", Line |-> toks[i].Line,
                            Text |-> SubSeq(src, p + 1, q)]
              /\ starts[i] = p
              /\ toks[i + 1] = [Type |-> "Dot", Line |-> toks[i + 1].Line,
                                Text |-> <<46>>]
              /\ starts[i + 1] = q

\* C9: an opening '"' with no closing '"' before the end of the input gives
\* no token for the literal and the diagnostic "unterminated string on line
\* <line>", and Scan still ends with the EOF token; the 4 bytes "abc give
\* [EOF] and that one diagnostic for line 1.
C9_UnterminatedAtEnd ==
  pc = "done" =>
    /\ \A k \in 1..Len(dispatched) :
         LET p == dispatched[k]
         IN (at(p) = 34 /\ \A j \in (p + 1)..(Len(src) - 1) : at(j) # 34)
            => /\ TokensAt(p) = {}
               /\ scanner.errors # <<>>
               /\ scanner.errors[Len(scanner.errors)] =
                    <<"unterminated string", " on line ", scanner.line>>
               /\ toks[Len(toks)].Type = "EOF"
    /\ src = ExUnterminated =>
         /\ toks = <<[Type |-> "EOF", Text |-> <<>>, Line |-> 1]>>
         /\ scanner.errors = <<<<"unterminated string", " on line ", 1>>>>

\* The maximal runs of digits of the source with no letter next to them, as
\* <<first position, position after the last>>.
DigitRuns ==
  {r \in (0..Len(src)) \X (0..Len(src)) :
     /\ r[1] < r[2]
     /\ \A j \in r[1]..(r[2] - 1) : isDigit(at(j))
     /\ (r[1] > 0 => ~isAlphaNumeric(at(r[1] - 1)))
     /\ (r[2] < Len(src) => ~isAlphaNumeric(at(r[2])))}

\* Token i holds a byte of the run r.
Covers(i, r) ==
  \E j \in r[1]..(r[2] - 1) :
     starts[i] <= j /\ j < starts[i] + Len(toks[i].Text)

\* C10: maximal munch.  The bytes of a maximal run of digits with no letter
\* next to it are never spread over two Number tokens.
C10_DigitRunNotSplit ==
  \A r \in DigitRuns :
    \A i, j \in 1..Len(toks) :
      (/\ i # j
       /\ toks[i].Type = "Number"
       /\ toks[j].Type = "Number"
       /\ Covers(i, r))
      => ~Covers(j, r)

C10_Witness ==
  \E r \in DigitRuns :
    /\ r[2] - r[1] >= 2
    /\ \E i \in 1..Len(toks) :
         /\ toks[i].Type = "Number"
         /\ starts[i] = r[1]
         /\ Len(toks[i].Text) = r[2] - r[1]

RECURSIVE CommentEnd(_)
CommentEnd(p) ==
  IF p < Len(src) /\ at(p) # 10 THEN CommentEnd(p + 1) ELSE p

\* C12: a line comment consumes the bytes up to the next '\n' or the end of
\* the input and gives no token and no diagnostic; the '\n' is dispatched
\* next and gives a Newline token; "// comment\nlet" gives Newline,
\* Let("let"), EOF and no diagnostic.
C12_Step ==
  /\ (/\ pc = "Scan"
      /\ scanner.current + 1 < Len(src)
      /\ at(scanner.current) = 47
      /\ at(scanner.current + 1) = 47)
       => /\ pc' = "comment"
          /\ scanner'.current = scanner.current + 2
          /\ scanner'.tokens = toks
          /\ scanner'.errors = scanner.errors
  /\ pc = "comment"
       => /\ scanner'.tokens = toks
          /\ scanner'.errors = scanner.errors
          /\ IF scanner.current < Len(src) /\ at(scanner.current) # 10
             THEN pc' = "comment" /\ scanner'.current = scanner.current + 1
             ELSE pc' = "Scan" /\ scanner'.current = scanner.current
  /\ pc' = "done"
       => /\ \A k \in 1..Len(dispatched') :
               LET p == dispatched'[k]
                   q == CommentEnd(p + 2)
               IN (p + 1 < Len(src) /\ at(p) = 47 /\ at(p + 1) = 47
                   /\ q < Len(src))
                  => \E i \in 1..Len(scanner'.tokens) :
                       /\ starts'[i] = q
                       /\ scanner'.tokens[i].Type = "Newline"
                       /\ scanner'.tokens[i].Text = <<10>>
          /\ src = ExComment
               => /\ scanner'.tokens =
                       <<[Type |-> "Newline", Text |-> <<10>>, Line |-> 2],
                         [Type |-> "Let", Text |-> <<108, 101, 116>>,
                          Line |-> 2],
                         [Type |-> "EOF", Text |-> <<>>, Line |-> 2]>>
                  /\ scanner'.errors = <<>>

C12_LineComment == [][C12_Step]_vars

Single(c) ==
  CASE c = 60 -> "LeftAngle" [] c = 62 -> "RightAngle"
    [] c = 61 -> "Assign" [] c = 33 -> "Bang"

Double(c) ==
  CASE c = 60 -> "LesserEquals" [] c = 62 -> "GreaterEquals"
    [] c = 61 -> "Equals" [] c = 33 -> "NotEquals"

\* C14: a dispatch on '<', '>', '=' or '!' with '=' as the next byte consumes
\* both and gives the one two-character token; with another next byte, or
\* none, it gives the one single-character token and consumes one byte.
C14_Step ==
  (pc = "Scan" /\ ~end(scanner) /\ at(scanner.current) \in {60, 62, 61, 33})
    => LET p == scanner.current
           c == at(p)
       IN IF p + 1 < Len(src) /\ at(p + 1) = 61
          THEN /\ scanner'.tokens =
                    Append(toks, [Type |-> Double(c), Text |-> <<c, 61>>,
                                  Line |-> scanner.line])
               /\ scanner'.current = p + 2
          ELSE /\ scanner'.tokens =
                    Append(toks, [Type |-> Single(c), Text |-> <<c>>,
                                  Line |-> scanner.line])
               /\ scanner'.current = p + 1

C14_TwoCharacterOperators == [][C14_Step]_vars

\* C15: a dispatch on '\n' increments the line counter, consumes the byte and
\* gives one Newline token with text "\n" and the incremented line.
C15_Step ==
  (pc = "Scan" /\ ~end(scanner) /\ at(scanner.current) = 10)
    => /\ scanner'.line = scanner.line + 1
       /\ scanner'.current = scanner.current + 1
       /\ scanner'.tokens =
            Append(toks, [Type |-> "Newline", Text |-> <<10>>,
                          Line |-> scanner.line + 1])

C15_Newline == [][C15_Step]_vars

\* C16: in a string literal every '\n' before the closing quote appends one
\* "unterminated string on line <line>" diagnostic and is consumed as part of
\* the body; the closing '"' is consumed and gives one String token whose
\* text is the bytes strictly between the two quotes.
C16_Step ==
  (pc = "stringLiteral" /\ ~end(scanner))
    => /\ at(scanner.start) = 34
       /\ at(scanner.current) = 10
            => /\ scanner'.errors =
                    Append(scanner.errors,
                           <<"unterminated string", " on line ",
                             scanner.line>>)
               /\ scanner'.current = scanner.current + 1
               /\ scanner'.tokens = toks
               /\ pc' = "stringLiteral"
       /\ at(scanner.current) = 34
            => /\ scanner'.current = scanner.current + 1
               /\ scanner'.tokens =
                    Append(toks,
                           [Type |-> "String", Line |-> scanner.line,
                            Text |-> SubSeq(src, scanner.start + 2,
                                            scanner.current)])
               /\ \A j \in (scanner.start + 1)..(scanner.current - 1) :
                    at(j) # 34
               /\ scanner'.errors = scanner.errors
               /\ pc' = "Scan"

C16_StringBody == [][C16_Step]_vars

C16_Witness ==
  /\ scanner.errors # <<>>
  /\ \E i \in 1..Len(toks) :
       /\ toks[i].Type = "String"
       /\ \E j \in 1..Len(toks[i].Text) : toks[i].Text[j] = 10

\* The first position from p on that holds no letter, digit or '_'.
RECURSIVE WordEnd(_)
WordEnd(p) ==
  IF p < Len(src) /\ isAlphaNumeric(at(p)) THEN WordEnd(p + 1) ELSE p

\* C17: every dispatch on a letter or '_' gives exactly one token, whose text
\* is the run of letters, digits and '_' from there and whose kind is the
\* keyword kind of that text, True, False or Identifier.
C17_WordPerLetterDispatch ==
  pc = "done" =>
    \A k \in 1..Len(dispatched) :
      LET p == dispatched[k]
          word == SubSeq(src, p + 1, WordEnd(p))
      IN isAlpha(at(p)) =>
           /\ Cardinality(TokensAt(p)) = 1
           /\ \A i \in TokensAt(p) :
                /\ toks[i].Text = word
                /\ toks[i].Type = keywordOrIdentifier(word)
                /\ (word = <<108, 101, 116>> => toks[i].Type = "Let")
                /\ (word = <<97>> => toks[i].Type = "Identifier")

\* C18: the text of a token is the lexeme source[start:current] at the moment
\* it is appended, source[start+1:current-1] for a String token, and tokens
\* already appended are never changed or removed.
C18_Step ==
  /\ Len(scanner'.tokens) >= Len(toks)
  /\ SubSeq(scanner'.tokens, 1, Len(toks)) = toks
  /\ Len(scanner'.tokens) <= Len(toks) + 1
  /\ Len(scanner'.tokens) = Len(toks) + 1
       => LET t == scanner'.tokens[Len(toks) + 1]
          IN CASE t.Type = "EOF" -> TRUE
               [] t.Type = "String" ->
                    t.Text = SubSeq(src, scanner'.start + 2,
                                    scanner'.current - 1)
               [] OTHER ->
                    t.Text = SubSeq(src, scanner'.start + 1,
                                    scanner'.current)

C18_TextIsLexeme == [][C18_Step]_vars

C18_Witness ==
  /\ pc = "done"
  /\ \E i \in 1..Len(toks) :
       toks[i].Type = "Equals" /\ toks[i].Text = <<61, 61>>

\* C19: Scan called again on a scanner that has returned dispatches nothing,
\* leaves start, current, line and the diagnostics as they are and appends
\* one more EOF token, so that the tokens end with two EOF tokens.
C19_Step ==
  (calls' >= 2)
    => /\ scanner'.start = scanner.start
       /\ scanner'.current = scanner.current
       /\ scanner'.line = scanner.line
       /\ scanner'.errors = scanner.errors
       /\ dispatched' = dispatched
       /\ pc' \in {"Scan", "done"}
       /\ (calls = calls' /\ pc' = "done")
            => /\ Len(toks) > 0
               /\ toks[Len(toks)].Type = "EOF"
               /\ scanner'.tokens =
                    Append(toks, [Type |-> "EOF", Text |-> <<>>,
                                  Line |-> scanner.line])

C19_SecondScan == [][C19_Step]_vars

C19_Witness ==
  /\ pc = "done"
  /\ calls = 2
  /\ Len(toks) >= 3
  /\ toks[Len(toks)].Type = "EOF"
  /\ toks[Len(toks) - 1].Type = "EOF"
  /\ toks[Len(toks) - 2].Type # "EOF"

\* C20: advance called before the end of the input moves current forward by
\* exactly one, not past the end, and returns the byte that was at current,
\* the last byte of the source included.
C20_AdvanceReturnsByte ==
  ~end(scanner)
    => /\ advance(scanner).sc.current = scanner.current + 1
       /\ advance(scanner).sc.current <= Len(src)
       /\ advance(scanner).c = at(scanner.current)

====
